---- MODULE Spec2Model ----
(***************************************************************************)
(* A model of fastai/data_block.py: ItemList, CategoryList,                *)
(* MultiCategoryList, LabelList and the split container                    *)
(* ItemLists / LabelLists.                                                 *)
(*                                                                         *)
(* Representation of Python values.                                        *)
(*   - A str is a TLA+ string.  Every element stored in a collection is a  *)
(*     tuple of strings: a file path is the tuple of its parts relative to *)
(*     the base path, a single label s is <<s>>, a multi-label list is the *)
(*     tuple of its strings, an item object built by an external class     *)
(*     (Category, MultiCategory) is a tuple headed by the class name.      *)
(*   - A collection is a record [cls, items, classes]; `classes` is the    *)
(*     tuple of class strings of a CategoryList / MultiCategoryList and    *)
(*     <<>> for a plain ItemList, which has no such attribute.             *)
(*   - A LabelList is a record [cls, x, y, tfms].  None is [cls |-> "None"].*)
(*   - A call that may raise returns [err, ret, self]: err is "ok" or the  *)
(*     name of the exception, ret the returned value, self the receiver    *)
(*     after the call (methods that assign to self.items change it).       *)
(***************************************************************************)
EXTENDS Integers, Sequences, FiniteSets, TLC

\* Longest source item list drawn by Init.
MaxLen == 3
\* Longest index array handed to __getitem__ / split_by_idxs.
MaxIdxLen == 2

None == [cls |-> "None"]

\* The files of the data folder, as path parts relative to the base path.
Files ==
  { <<"train", "cat", "c1.png">>, <<"train", "dog", "d2.png">>, <<"valid", "cat", "x3.png">> }

\* The item lists handed to add_test.
TestItems ==
  { <<>>, << <<"test", "t1.png">>, <<"test", "t2.png">> >> }

Range(s) == {s[i] : i \in DOMAIN s}

\* Sequences over S without repetition, of length at most n.
RECURSIVE DistinctSeqs(_, _)
DistinctSeqs(S, n) ==
  IF n = 0 THEN {<<>>}
  ELSE LET shorter == DistinctSeqs(S, n - 1)
       IN  shorter \cup {s \in {Append(t, e) : t \in shorter, e \in S} :
                           Cardinality(Range(s)) = Len(s)}

\* Index arrays: sequences over 0..hi of length at most n.
RECURSIVE IdxArrays(_, _)
IdxArrays(hi, n) ==
  IF n = 0 THEN {<<>>}
  ELSE LET shorter == IdxArrays(hi, n - 1)
       IN  shorter \cup {Append(s, e) : s \in shorter, e \in 0..hi}

Raise(e, self) == [err |-> e, ret |-> None, self |-> self]
Return(v, self) == [err |-> "ok", ret |-> v, self |-> self]

-----------------------------------------------------------------------------
(* Helpers of the imported modules.                                        *)

\* uniqueify(x): the distinct values of x, each at its first occurrence.
RECURSIVE uniqueify(_)
uniqueify(s) ==
  IF s = <<>> THEN <<>>
  ELSE LET init == uniqueify(SubSeq(s, 1, Len(s) - 1))
           e == s[Len(s)]
       IN  IF e \in Range(init) THEN init ELSE Append(init, e)

\* np.concatenate over a list of lists.
RECURSIVE concatenate(_)
concatenate(ss) ==
  IF ss = <<>> THEN <<>> ELSE Head(ss) \o concatenate(Tail(ss))

\* range_of(x): the indices 0..len(x)-1 in order.
range_of(s) == [i \in 1..Len(s) |-> i - 1]

\* ndarray fancy indexing items[idxs]; idxs are 0-based.
take(items, idxs) == [i \in 1..Len(idxs) |-> items[idxs[i] + 1]]
in_bounds(items, idxs) == \A i \in DOMAIN idxs : idxs[i] \in 0..(Len(items) - 1)

\* o.name and o.parent.name of a path.
name(o) == o[Len(o)]
parent_name(o) == IF Len(o) >= 2 THEN o[Len(o) - 1] ELSE ""

\* pat.search(o.name) for the pattern '^([cd])\d': the first group, or
\* "" when the search returns None.
re_group(s) ==
  CASE s = "c1.png" -> "c"
    [] s = "d2.png" -> "d"
    [] OTHER -> ""

\* Position of v in classes as class2idx gives it: {v:k for k,v in
\* enumerate(classes)} keeps the last k of a repeated v.  -1: no such key.
class2idx(classes, v) ==
  IF v \in Range(classes)
  THEN (CHOOSE k \in DOMAIN classes :
          classes[k] = v /\ \A j \in DOMAIN classes : classes[j] = v => j <= k) - 1
  ELSE -1

-----------------------------------------------------------------------------
(* ItemList, CategoryList, MultiCategoryList.                              *)

ItemList_init(items) == [cls |-> "ItemList", items |-> items, classes |-> <<>>]

\* CategoryList(items, classes): classes default to uniqueify(items).
CategoryList_init(items, classes, given) ==
  [cls |-> "CategoryList", items |-> items,
   classes |-> IF given THEN classes ELSE uniqueify([i \in DOMAIN items |-> items[i][1]])]

\* MultiCategoryList(items, classes): classes default to
\* uniqueify(np.concatenate(items)), which raises on an empty list.
MultiCategoryList_init(items, classes, given) ==
  IF ~given /\ items = <<>> THEN Raise("ValueError", None)
  ELSE Return([cls |-> "MultiCategoryList", items |-> items,
               classes |-> IF given THEN classes ELSE uniqueify(concatenate(items))],
              None)

\* ItemList.new / CategoryList.new called with the items alone.
new(self, items) ==
  IF self.cls = "ItemList" THEN ItemList_init(items)
  ELSE [cls |-> self.cls, items |-> items, classes |-> self.classes]

\* ItemList.get / CategoryList.get.
get(self, i) ==
  IF i \notin 0..(Len(self.items) - 1) THEN Raise("IndexError", self)
  ELSE LET o == self.items[i + 1] IN
       CASE self.cls = "ItemList" -> Return(o, self)
         [] self.cls = "CategoryList" ->
              IF class2idx(self.classes, o[1]) < 0 THEN Raise("KeyError", self)
              ELSE Return(<<"Category", o[1], ToString(class2idx(self.classes, o[1]))>>, self)
         [] OTHER ->
              IF \E j \in DOMAIN o : class2idx(self.classes, o[j]) < 0
              THEN Raise("KeyError", self)
              ELSE Return(<<"MultiCategory">> \o o
                            \o [j \in DOMAIN o |-> ToString(class2idx(self.classes, o[j]))],
                          self)

\* ItemList.__getitem__ with an index array: self.new(self.items[idxs],
\* xtra=...).  CategoryList.new takes no xtra.
getitem(self, idxs) ==
  IF ~in_bounds(self.items, idxs) THEN Raise("IndexError", self)
  ELSE IF self.cls = "ItemList" THEN Return(new(self, take(self.items, idxs)), self)
  ELSE Raise("TypeError", self)

-----------------------------------------------------------------------------
(* Filtering and labeling.                                                 *)

\* The predicates handed to filter_by_func:
\*   is_cat   lambda o: o.parent.name == 'cat'
\*   re_is_c  lambda o: pat.search(o.name).group(1) == 'c', which raises
\*            AttributeError where the search returns None.
Preds == {"is_cat", "re_is_c"}
pred_raises(f, o) == f = "re_is_c" /\ re_group(name(o)) = ""
pred_holds(f, o) ==
  IF f = "is_cat" THEN parent_name(o) = "cat" ELSE re_group(name(o)) = "c"

\* ItemList.filter_by_func: assigns the kept items to self.items, returns self.
filter_by_func(self, f) ==
  IF \E i \in DOMAIN self.items : pred_raises(f, self.items[i])
  THEN Raise("AttributeError", self)
  ELSE LET keep(o) == pred_holds(f, o)
           kept == [self EXCEPT !.items = SelectSeq(self.items, keep)]
       IN  Return(kept, kept)

\* The per-item label functions:
\*   folder  lambda o: o.parent.name                     (label_from_folder)
\*   re      _inner of label_from_re, asserting a match
\*   const   lambda o: const, const = 0                  (label_const)
\*   parts   lambda o: list(o.relative_to(path).parts[:2]), a multi-label
label_raises(fn, o) == fn = "re" /\ re_group(name(o)) = ""
label_of(fn, o) ==
  CASE fn = "folder" -> <<parent_name(o)>>
    [] fn = "re" -> <<re_group(name(o))>>
    [] fn = "const" -> <<"0">>
    [] OTHER -> SubSeq(o, 1, 2)

LabelList_init(x, y, tfms) == [cls |-> "LabelList", x |-> x, y |-> y, tfms |-> tfms]

\* ItemList.create_label_list: label_cls falls back to self._label_cls
\* (None on every list made by new) and then to self.__class__.
create_label_list(self, labels, label_cls) ==
  LET lc == IF label_cls = "None" THEN self.cls ELSE label_cls IN
  CASE lc = "ItemList" ->
         Return(LabelList_init(self, ItemList_init(labels), "None"), self)
    [] lc = "CategoryList" ->
         Return(LabelList_init(self, CategoryList_init(labels, <<>>, FALSE), "None"), self)
    [] OTHER ->
         LET y == MultiCategoryList_init(labels, <<>>, FALSE) IN
         IF y.err # "ok" THEN Raise(y.err, self)
         ELSE Return(LabelList_init(self, y.ret, "None"), self)

\* ItemList.label_from_func: [func(o) for o in self.items], then
\* create_label_list.
label_from_func(self, fn, label_cls) ==
  IF \E i \in DOMAIN self.items : label_raises(fn, self.items[i])
  THEN Raise("AssertionError", self)
  ELSE create_label_list(self, [i \in DOMAIN self.items |-> label_of(fn, self.items[i])],
                         label_cls)

label_from_folder(self, label_cls) ==
  label_from_func(self, "folder", IF label_cls = "None" THEN "CategoryList" ELSE label_cls)

label_from_re(self, label_cls) == label_from_func(self, "re", label_cls)

label_const(self, label_cls) == label_from_func(self, "const", label_cls)

-----------------------------------------------------------------------------
(* Splitting.                                                              *)

\* The split container as split_by_idxs builds it: ItemLists(path, train, valid).
ItemLists_init(t, v) == [train |-> t, valid |-> v]

\* ItemList.split_by_idxs: self._split(self.path, self[train_idx], self[valid_idx]).
split_by_idxs(self, train_idx, valid_idx) ==
  LET t == getitem(self, train_idx)
      v == getitem(self, valid_idx)
  IN  IF t.err # "ok" THEN Raise(t.err, self)
      ELSE IF v.err # "ok" THEN Raise(v.err, self)
      ELSE Return(ItemLists_init(t.ret, v.ret), self)

\* split_by_idx with `train` built without the test `i not in valid_idx`.
split_by_idx_train_all(self, valid_idx) ==
  LET isin(i) == i \in valid_idx
  IN  split_by_idxs(self, range_of(self.items), SelectSeq(range_of(self.items), isin))

\* ItemList.split_by_idx: both index lists by a scan of enumerate(self.items).
split_by_idx(self, valid_idx) ==
  LET isin(i) == i \in valid_idx
      notin(i) == i \notin valid_idx
  IN  split_by_idxs(self, SelectSeq(range_of(self.items), notin),
                    SelectSeq(range_of(self.items), isin))

\* ItemList._get_by_folder: the indices whose first path part is `nm`.
get_by_folder(self, nm) ==
  LET here(i) == self.items[i + 1][1] = nm
  IN  SelectSeq(range_of(self.items), here)

\* ItemList.split_by_folder.
split_by_folder(self) ==
  split_by_idxs(self, get_by_folder(self, "train"), get_by_folder(self, "valid"))

-----------------------------------------------------------------------------
(* LabelList.                                                              *)

\* LabelList.__len__.
len(o) == IF o.cls = "LabelList" THEN Len(o.x.items) ELSE Len(o.items)

\* LabelList.new.
LabelList_new(self, x, y) == LabelList_init(x, y, self.tfms)

\* LabelList.__getitem__ with an index array.
LabelList_getitem(self, idxs) ==
  LET x == getitem(self.x, idxs)
      y == getitem(self.y, idxs)
  IN  IF x.err # "ok" THEN Raise(x.err, self)
      ELSE IF y.err # "ok" THEN Raise(y.err, self)
      ELSE Return(LabelList_new(self, x.ret, y.ret), self)

\* LabelList.__getitem__ with an int: the pair (x[i], y[i]); apply_tfms
\* belongs to the item class and leaves the label alone (tfm_y is False).
\* Only the label of the pair is returned here.
LabelList_getitem_int(self, i) ==
  LET x == get(self.x, i)
      y == get(self.y, i)
  IN  IF x.err # "ok" THEN Raise(x.err, self)
      ELSE IF y.err # "ok" THEN Raise(y.err, self)
      ELSE Return(y.ret, self)

\* LabelList.transform: assigns self.tfms, returns self.
LabelList_transform(self, tfms) ==
  LET s == [self EXCEPT !.tfms = tfms] IN Return(s, s)

\* The names looked up on train and valid by the container.
ItemListMethods ==
  {"filter_by_func", "label_from_folder", "label_from_re", "label_from_func", "label_const"}

\* getattr(o, k): "method" for a callable, "value" for any other attribute,
\* "missing" when the lookup raises AttributeError.  LabelList.__getattr__
\* tries x and then y.
getattr_kind(o, k) ==
  CASE o.cls = "ItemList" -> IF k \in ItemListMethods THEN "method" ELSE "missing"
    [] o.cls = "LabelList" ->
         IF k = "from_lists" \/ k \in ItemListMethods THEN "method"
         ELSE IF k = "classes" /\ o.y.cls \in {"CategoryList", "MultiCategoryList"}
              THEN "value"
         ELSE "missing"
    [] OTHER -> "missing"

\* A method of ItemList called on an ItemList.
ItemList_call(self, k, a) ==
  CASE k = "filter_by_func" -> filter_by_func(self, a.func)
    [] k = "label_from_folder" -> label_from_folder(self, a.label_cls)
    [] k = "label_from_re" -> label_from_re(self, a.label_cls)
    [] k = "label_const" -> label_const(self, a.label_cls)
    [] OTHER -> label_from_func(self, a.func, a.label_cls)

\* getattr(o, k)(*args) for a k that getattr_kind calls a method.  On a
\* LabelList every name but from_lists is bound to o.x; from_lists builds
\* cls(array, path), whose __init__ fails to set an attribute on the path.
call(o, k, a) ==
  IF o.cls = "LabelList"
  THEN IF k = "from_lists" THEN Raise("AttributeError", o)
       ELSE LET r == ItemList_call(o.x, k, a)
            IN  [err |-> r.err, ret |-> r.ret, self |-> [o EXCEPT !.x = r.self]]
  ELSE ItemList_call(o, k, a)

-----------------------------------------------------------------------------
(* The split container ItemLists / LabelLists.  An operator on it takes   *)
(* the container [kind, path, train, valid, test] (kind is its __class__)  *)
(* and returns [self, err, ret, calls]: the container afterwards, the      *)
(* exception or "ok", the returned value, and the calls made on the sides  *)
(* in order.                                                               *)

Self == [cls |-> "self"]
Outcome(c, e, r, calls) == [self |-> c, err |-> e, ret |-> r, calls |-> calls]
Called(side, k, a) == [on |-> side, k |-> k, a |-> a]

\* _inner with self.valid = ft(*args, **kwargs): train's bound method twice.
inner_ft_twice(self, k, a) ==
  LET t == call(self.train, k, a)
      both == <<Called("train", k, a), Called("valid", k, a)>>
  IN  IF t.err # "ok"
      THEN Outcome([self EXCEPT !.train = t.self], t.err, None, <<Called("train", k, a)>>)
      ELSE LET v == call(t.self, k, a) IN
           IF v.err # "ok"
           THEN Outcome([self EXCEPT !.train = t.ret], v.err, None, both)
           ELSE Outcome([self EXCEPT !.train = t.ret, !.valid = v.ret,
                                     !.kind = IF t.ret.cls = "LabelList"
                                              THEN "LabelLists" ELSE @],
                        "ok", Self, both)

\* _inner of ItemLists.__getattr__: the two calls and the class swap.
inner(self, k, a) ==
  LET t == call(self.train, k, a) IN
  IF t.err # "ok"
  THEN Outcome([self EXCEPT !.train = t.self], t.err, None, <<Called("train", k, a)>>)
  ELSE LET v == call(self.valid, k, a)
           both == <<Called("train", k, a), Called("valid", k, a)>>
       IN  IF v.err # "ok"
           THEN Outcome([self EXCEPT !.train = t.ret, !.valid = v.self], v.err, None, both)
           ELSE Outcome([self EXCEPT !.train = t.ret, !.valid = v.ret,
                                     !.kind = IF t.ret.cls = "LabelList"
                                              THEN "LabelLists" ELSE @],
                        "ok", Self, both)

\* __getattr__ with the lookup on valid moved into _inner, after train's call.
ItemLists_getattr_late_lookup(self, k, a) ==
  LET ft == getattr_kind(self.train, k)
      fv == getattr_kind(self.valid, k)
  IN  CASE ft = "missing" -> Outcome(self, "AttributeError", None, <<>>)
        [] ft = "value" -> Outcome(self, "ok", [cls |-> "value", v |-> self.train.y.classes], <<>>)
        [] fv # "method" ->
             LET t == call(self.train, k, a) IN
             Outcome([self EXCEPT !.train = IF t.err = "ok" THEN t.ret ELSE t.self],
                     IF t.err # "ok" THEN t.err
                     ELSE IF fv = "missing" THEN "AttributeError" ELSE "AssertionError",
                     None, <<Called("train", k, a)>>)
        [] OTHER -> inner(self, k, a)

\* ItemLists.__getattr__ followed by the call of what it returns.
ItemLists_getattr(self, k, a) ==
  LET ft == getattr_kind(self.train, k)
      fv == getattr_kind(self.valid, k)
  IN  CASE ft = "missing" -> Outcome(self, "AttributeError", None, <<>>)
        [] ft = "value" -> Outcome(self, "ok", [cls |-> "value", v |-> self.train.y.classes], <<>>)
        [] fv = "missing" -> Outcome(self, "AttributeError", None, <<>>)
        [] fv = "value" -> Outcome(self, "AssertionError", None, <<>>)
        [] OTHER -> inner(self, k, a)

\* ItemLists.lists, by name.
lists(self) == IF self.test # None THEN <<"train", "valid", "test">> ELSE <<"train", "valid">>

side_of(self, nm) ==
  CASE nm = "train" -> self.train [] nm = "valid" -> self.valid [] OTHER -> self.test

\* {**b, **a}: the entries of a win.
merge_first_wins(a, b) ==
  [key \in DOMAIN a \cup DOMAIN b |-> IF key \in DOMAIN a THEN a[key] ELSE b[key]]

\* {**a, **b}
merge(a, b) ==
  [key \in DOMAIN a \cup DOMAIN b |-> IF key \in DOMAIN b THEN b[key] ELSE a[key]]

\* The loop of ItemLists.preprocess over self.lists[1:], from position i.
RECURSIVE preprocess_rest(_, _, _, _)
preprocess_rest(self, kwargs, i, calls) ==
  IF i > Len(lists(self)) THEN Outcome(self, "ok", Self, calls)
  ELSE IF side_of(self, lists(self)[i]).cls # "LabelList"
       THEN Outcome(self, "AttributeError", None, calls)
       ELSE preprocess_rest(self, kwargs, i + 1,
                            Append(calls, Called(lists(self)[i], "preprocess", kwargs)))

\* ItemLists.preprocess.  ItemList.preprocess itself does nothing;
\* preprocess_kwargs is what getattr(self.train.x, 'preprocess_kwargs', {})
\* gives after train's call.
ItemLists_preprocess(self, kwargs, preprocess_kwargs) ==
  IF self.train.cls # "LabelList" THEN Outcome(self, "AttributeError", None, <<>>)
  ELSE preprocess_rest(self, merge(kwargs, preprocess_kwargs), 2,
                       <<Called("train", "preprocess", kwargs)>>)

\* ItemLists.transform.  `if self.test:` is len(self.test) > 0.
ItemLists_transform(self, tfms) ==
  IF self.train.cls # "LabelList" THEN Outcome(self, "AttributeError", None, <<>>)
  ELSE LET s1 == [self EXCEPT !.train = LabelList_transform(self.train, tfms[1]).self] IN
       IF self.valid.cls # "LabelList"
       THEN Outcome(s1, "AttributeError", None, <<Called("train", "transform", tfms[1])>>)
       ELSE LET s2 == [s1 EXCEPT !.valid = LabelList_transform(self.valid, tfms[2]).self] IN
            IF self.test # None /\ len(self.test) > 0
            THEN Outcome([s2 EXCEPT !.test = LabelList_transform(self.test, tfms[2]).self],
                         "ok", Self,
                         <<Called("train", "transform", tfms[1]),
                           Called("valid", "transform", tfms[2]),
                           Called("test", "transform", tfms[2])>>)
            ELSE Outcome(s2, "ok", Self,
                         <<Called("train", "transform", tfms[1]),
                           Called("valid", "transform", tfms[2])>>)

\* self.valid[0][1] in place of self.train[0][1].
first_valid_label(self) ==
  IF self.valid.cls = "LabelList" THEN LabelList_getitem_int(self.valid, 0)
  ELSE IF get(self.valid, 0).err # "ok" THEN Raise("IndexError", self.valid)
  ELSE Raise("TypeError", self.valid)

\* self.train[0][1] of add_test.  On a LabelList train[0] is the pair
\* (x, y); on an ItemList it is an item, which is not subscriptable.
first_train_label(self) ==
  IF self.train.cls = "LabelList" THEN LabelList_getitem_int(self.train, 0)
  ELSE IF get(self.train, 0).err # "ok" THEN Raise("IndexError", self.train)
  ELSE Raise("TypeError", self.train)

\* LabelLists.add_test; label "None" stands for no label passed.
LabelLists_add_test(self, items, label) ==
  LET lab == IF label = "None" THEN first_train_label(self) ELSE Return(<<label>>, None) IN
  IF lab.err # "ok" THEN Outcome(self, lab.err, None, <<>>)
  ELSE IF self.valid.cls # "LabelList" THEN Outcome(self, "AttributeError", None, <<>>)
  ELSE LET v == self.valid
           x == new(v.x, items)
           y == new(v.y, [i \in DOMAIN x.items |-> lab.ret])
       IN  Outcome([self EXCEPT !.test = LabelList_new(v, x, y)], "ok", Self, <<>>)

-----------------------------------------------------------------------------
(* The state machine.                                                      *)

VARIABLES
  pc,     \* "raw": src is an unsplit ItemList; "split": the container exists
  src,    \* the ItemList being built, None once it is split
  kind,   \* the container's __class__: "ItemLists" or "LabelLists"
  path,   \* the container's path
  train, valid, test,   \* the container's attributes
  last    \* the last call: [op, a, err, ret, calls]

vars == <<pc, src, kind, path, train, valid, test, last>>

container == [kind |-> kind, path |-> path, train |-> train, valid |-> valid, test |-> test]

Last(op, a, r) == [op |-> op, a |-> a, err |-> r.err, ret |-> r.ret, calls |-> r.calls]

\* Assign the container an operator returns.
Becomes(c) ==
  /\ kind' = c.kind
  /\ path' = c.path
  /\ train' = c.train
  /\ valid' = c.valid
  /\ test' = c.test

Init ==
  /\ pc = "raw"
  /\ src \in {ItemList_init(s) : s \in DistinctSeqs(Files, MaxLen)}
  /\ kind = "None"
  /\ path = "None"
  /\ train = None
  /\ valid = None
  /\ test = None
  /\ last = [op |-> "init", a |-> <<>>, err |-> "ok", ret |-> None, calls |-> <<>>]

\* ItemLists.__init__ on the result of a split method.
Split(op, a, r) ==
  /\ pc' = "split"
  /\ src' = None
  /\ kind' = "ItemLists"
  /\ path' = "data"
  /\ train' = r.ret.train
  /\ valid' = r.ret.valid
  /\ test' = None
  /\ last' = [op |-> op, a |-> a, err |-> "ok", ret |-> Self, calls |-> <<>>]

\* src.split_by_idx(valid_idx); MaxLen is never a valid index.
SplitByIdx ==
  /\ pc = "raw"
  /\ \E valid_idx \in SUBSET (0..MaxLen) :
       Split("split_by_idx", [valid_idx |-> valid_idx], split_by_idx(src, valid_idx))

\* src.split_by_folder()
SplitByFolder ==
  /\ pc = "raw"
  /\ Split("split_by_folder", <<>>, split_by_folder(src))

\* The calls forwarded through ItemLists.__getattr__: name and arguments.
ForwardCalls ==
  {[k |-> "filter_by_func", func |-> f, label_cls |-> "None"] : f \in Preds}
  \cup {[k |-> "label_from_folder", func |-> "None", label_cls |-> "None"],
        [k |-> "label_from_re", func |-> "None", label_cls |-> "None"],
        [k |-> "label_from_func", func |-> "parts", label_cls |-> "MultiCategoryList"],
        [k |-> "from_lists", func |-> "None", label_cls |-> "None"],
        [k |-> "classes", func |-> "None", label_cls |-> "None"]}

\* container.k(*args) for a name the container does not define.
Forward ==
  /\ pc = "split"
  /\ \E a \in ForwardCalls :
       LET r == ItemLists_getattr(container, a.k, a) IN
       /\ Becomes(r.self)
       /\ last' = Last("forward", a, r)
  /\ UNCHANGED <<pc, src>>

\* container.transform(tfms)
Transform ==
  /\ pc = "split"
  /\ LET r == ItemLists_transform(container, <<"tfmA", "tfmB">>) IN
     /\ Becomes(r.self)
     /\ last' = Last("transform", <<"tfmA", "tfmB">>, r)
  /\ UNCHANGED <<pc, src>>

\* The kwargs of the caller and the preprocess_kwargs of train.x.
Kwargs == {[vocab |-> "caller", max_len |-> "caller"]}
PreprocessKwargs == {<<>>, [vocab |-> "train"]}

\* container.preprocess(**kwargs)
Preprocess ==
  /\ pc = "split"
  /\ \E kw \in Kwargs, pk \in PreprocessKwargs :
       LET r == ItemLists_preprocess(container, kw, pk) IN
       /\ Becomes(r.self)
       /\ last' = Last("preprocess", [kwargs |-> kw, preprocess_kwargs |-> pk], r)
  /\ UNCHANGED <<pc, src>>

\* container.add_test(items, label); on an ItemLists the name goes through
\* __getattr__, where neither side has it.
AddTest ==
  /\ pc = "split"
  /\ \E items \in TestItems, label \in {"None", "dog"} :
       LET r == IF kind = "LabelLists" THEN LabelLists_add_test(container, items, label)
                ELSE ItemLists_getattr(container, "add_test", <<>>) IN
       /\ Becomes(r.self)
       /\ last' = Last("add_test", [items |-> items, label |-> label], r)
  /\ UNCHANGED <<pc, src>>

\* container.<side>.filter_by_func(f): on a LabelList the name falls
\* through __getattr__ to x.
SideFilter ==
  /\ pc = "split"
  /\ \E nm \in {"train", "valid", "test"}, f \in {"is_cat"} :
       /\ side_of(container, nm) # None
       /\ LET r == call(side_of(container, nm), "filter_by_func", [func |-> f]) IN
          /\ train' = IF nm = "train" THEN r.self ELSE train
          /\ valid' = IF nm = "valid" THEN r.self ELSE valid
          /\ test' = IF nm = "test" THEN r.self ELSE test
          /\ last' = [op |-> "side_filter", a |-> [on |-> nm, func |-> f], err |-> r.err,
                      ret |-> r.ret, calls |-> <<>>]
  /\ UNCHANGED <<pc, src, kind, path>>

Next ==
  \/ SplitByIdx
  \/ SplitByFolder
  \/ Forward
  \/ Transform
  \/ Preprocess
  \/ AddTest
  \/ SideFilter

Spec == Init /\ [][Next]_vars

-----------------------------------------------------------------------------
(* Vector indexing on its own: the receiver is drawn from every kind of    *)
(* collection the labeling methods build, and __getitem__ is applied.      *)

BaseLists == {ItemList_init(s) : s \in DistinctSeqs(Files, MaxLen)}

LabelCalls ==
  {[k |-> "label_from_folder", func |-> "None", label_cls |-> "None"],
   [k |-> "label_from_re", func |-> "None", label_cls |-> "None"],
   [k |-> "label_const", func |-> "None", label_cls |-> "None"],
   [k |-> "label_from_func", func |-> "parts", label_cls |-> "MultiCategoryList"]}

Labelled ==
  {r.ret : r \in {q \in {call(b, a.k, a) : b \in BaseLists, a \in LabelCalls} : q.err = "ok"}}

Receivers == BaseLists \cup Labelled \cup {l.y : l \in Labelled}

IndexInit ==
  /\ pc = "index"
  /\ src \in Receivers
  /\ kind = "None"
  /\ path = "None"
  /\ train = None
  /\ valid = None
  /\ test = None
  /\ last = [op |-> "init", a |-> <<>>, err |-> "ok", ret |-> None, calls |-> <<>>]

\* src[idxs] for an index array idxs.
GetItem ==
  /\ pc = "index"
  /\ \E idxs \in IdxArrays(MaxLen, MaxIdxLen) :
       LET r == IF src.cls = "LabelList" THEN LabelList_getitem(src, idxs)
                ELSE getitem(src, idxs) IN
       last' = [op |-> "getitem", a |-> [idxs |-> idxs], err |-> r.err, ret |-> r.ret,
                calls |-> <<>>]
  /\ UNCHANGED <<pc, src, kind, path, train, valid, test>>

NextIndex == GetItem

SpecIndex == IndexInit /\ [][NextIndex]_vars

-----------------------------------------------------------------------------
(* Properties.                                                             *)

Sides == {"train", "valid", "test"}
Slot(nm) == CASE nm = "train" -> train [] nm = "valid" -> valid [] OTHER -> test

\* The elements of items at the 1-based positions in P, in the order of items.
RECURSIVE Pick(_, _, _)
Pick(items, P, i) ==
  IF i > Len(items) THEN <<>>
  ELSE (IF i \in P THEN <<items[i]>> ELSE <<>>) \o Pick(items, P, i + 1)

\* C1: after a split followed by label_from_folder forwarded through the
\* container, train and valid (neither empty) have the same classes, in the
\* same order.
C1_SameClasses ==
  (last.op = "forward" /\ last.a.k = "label_from_folder" /\ last.err = "ok"
     /\ len(train) > 0 /\ len(valid) > 0)
    => train.y.classes = valid.y.classes

\* C2: every LabelList held by the container has len(x) = len(y), in every
\* reachable state.
C2_LenXEqLenY ==
  \A nm \in Sides :
    Slot(nm).cls = "LabelList" => Len(Slot(nm).x.items) = Len(Slot(nm).y.items)

\* C3: indexing a collection of any kind with a valid, non-empty index array
\* v succeeds
\* and returns a collection of the receiver's class, of length len(v),
\* holding the selected raw items in the order of v; a CategoryList result
\* shares the receiver's classes.
C3_IndexKeepsKind ==
  (last.op = "getitem" /\ last.a.idxs # <<>>
     /\ in_bounds(IF src.cls = "LabelList" THEN src.x.items ELSE src.items, last.a.idxs))
    => /\ last.err = "ok"
       /\ last.ret.cls = src.cls
       /\ len(last.ret) = Len(last.a.idxs)
       /\ IF src.cls = "LabelList"
          THEN /\ last.ret.x.items = take(src.x.items, last.a.idxs)
               /\ last.ret.y.items = take(src.y.items, last.a.idxs)
               /\ last.ret.y.cls = src.y.cls
               /\ last.ret.y.classes = src.y.classes
          ELSE /\ last.ret.items = take(src.items, last.a.idxs)
               /\ last.ret.classes = src.classes

\* C4: split_by_idx(V) on n items leaves len(train) + len(valid) = n, no item
\* on both sides, valid exactly the items whose index is in V and train the
\* rest, each in the original order; V may be empty, cover every index, or
\* hold indices out of range.
C4_SplitByIdx ==
  [][last'.op = "split_by_idx" =>
       LET V == last'.a.valid_idx
           n == Len(src.items)
       IN  /\ Len(train'.items) + Len(valid'.items) = n
           /\ Range(train'.items) \cap Range(valid'.items) = {}
           /\ valid'.items = Pick(src.items, {i \in 1..n : (i - 1) \in V}, 1)
           /\ train'.items = Pick(src.items, {i \in 1..n : (i - 1) \notin V}, 1)
           /\ train'.cls = "ItemList" /\ valid'.cls = "ItemList"]_vars

\* A split by a V holding an out-of-range index, with both sides non-empty.
C4_Witness ==
  /\ last.op = "split_by_idx"
  /\ MaxLen \in last.a.valid_idx
  /\ Len(train.items) >= 1
  /\ Len(valid.items) >= 2

\* C5: in every state of the container train and valid are of the same
\* kind, both ItemList or both LabelList, and test, when set, is of that
\* kind too.
C5_SameKind ==
  pc = "split" =>
    /\ train.cls = valid.cls
    /\ train.cls \in {"ItemList", "LabelList"}
    /\ test # None => test.cls = train.cls

\* C6: the container starts as ItemLists, becomes LabelLists exactly when a
\* forwarded call returns with a LabelList for train, stays LabelLists from
\* then on, and while it is LabelLists train and valid are LabelLists.
C6_Promotion ==
  [][/\ (pc = "raw" /\ pc' = "split") => kind' = "ItemLists"
     /\ kind = "LabelLists" => kind' = "LabelLists"
     /\ (kind = "ItemLists" /\ last' # last) =>
          (kind' = "LabelLists" <=>
             /\ last'.op = "forward"
             /\ last'.err = "ok"
             /\ last'.ret = Self
             /\ train'.cls = "LabelList")
     /\ kind' = "LabelLists" => (train'.cls = "LabelList" /\ valid'.cls = "LabelList")]_vars

\* C7: a forwarded method call that returns has invoked the method once on
\* train and then once on valid with the same arguments, has replaced train
\* and valid by the two results and returned the container; no forwarded
\* call, returning or raising, touches test or path or calls test.
C7_Forwarding ==
  [][last'.op = "forward" =>
       LET k == last'.a.k
           a == last'.a
       IN  /\ test' = test
           /\ path' = path
           /\ Len(last'.calls) <= 2
           /\ \A i \in DOMAIN last'.calls :
                last'.calls[i] = Called(<<"train", "valid">>[i], k, a)
           /\ (last'.err = "ok" /\ last'.ret = Self) =>
                /\ Len(last'.calls) = 2
                /\ train' = call(train, k, a).ret
                /\ valid' = call(valid, k, a).ret]_vars

\* A forwarded call that returned on a container holding a test set and
\* sides that differ.
C7_Witness ==
  /\ last.op = "forward"
  /\ last.err = "ok"
  /\ last.ret = Self
  /\ test # None
  /\ train # valid

\* C8: preprocess calls train's x first; when it returns, valid's x and,
\* when test is set, test's x have each been preprocessed once, after
\* train, with the caller's kwargs overridden by train.x.preprocess_kwargs,
\* train with the caller's kwargs alone, and the container is returned.
C8_Preprocess ==
  last.op = "preprocess" =>
    LET kw == last.a.kwargs
        pk == last.a.preprocess_kwargs
        Merged(m) == /\ DOMAIN m = DOMAIN kw \cup DOMAIN pk
                     /\ \A key \in DOMAIN pk : m[key] = pk[key]
                     /\ \A key \in DOMAIN kw \ DOMAIN pk : m[key] = kw[key]
        On(nm) == {i \in DOMAIN last.calls : last.calls[i].on = nm}
    IN  /\ last.calls # <<>> => last.calls[1] = Called("train", "preprocess", kw)
        /\ last.err = "ok" =>
             /\ last.ret = Self
             /\ Cardinality(On("train")) = 1
             /\ Cardinality(On("valid")) = 1
             /\ Cardinality(On("test")) = IF test # None THEN 1 ELSE 0
             /\ \A i \in DOMAIN last.calls :
                  i > 1 => /\ last.calls[i].on \in {"valid", "test"}
                           /\ last.calls[i].k = "preprocess"
                           /\ Merged(last.calls[i].a)

\* A preprocess that returned, with a test set and a key on both sides.
C8_Witness ==
  /\ last.op = "preprocess"
  /\ last.err = "ok"
  /\ test # None
  /\ DOMAIN last.a.kwargs \cap DOMAIN last.a.preprocess_kwargs # {}

\* C9 as stated: add_test with no label fails whenever valid is empty, and
\* on success test has one entry per item, each labelled like train[0].
C9_FailsOnEmptyValid ==
  (last.op = "add_test" /\ last.a.label = "None") =>
    /\ len(valid) = 0 => last.err # "ok"
    /\ last.err = "ok" =>
         /\ Len(test.x.items) = Len(last.a.items)
         /\ \A i \in DOMAIN test.y.items : test.y.items[i] = get(train.y, 0).ret

\* C9 amended: add_test with no label fails whenever train is empty,
\* whatever valid holds, and a failed add_test leaves test as it was; on
\* success test is a LabelList with one entry per item, in order, each
\* labelled with train[0][1].
C9_FailsOnEmptyTrain ==
  [][(last'.op = "add_test" /\ last'.a.label = "None") =>
       /\ len(train) = 0 => last'.err # "ok"
       /\ last'.err # "ok" => test' = test
       /\ last'.err = "ok" =>
            /\ test'.cls = "LabelList"
            /\ test'.x.items = last'.a.items
            /\ Len(test'.y.items) = Len(last'.a.items)
            /\ \A i \in DOMAIN test'.y.items : test'.y.items[i] = get(train.y, 0).ret]_vars

\* add_test with no label succeeding on an empty valid.
C9_Witness ==
  /\ last.op = "add_test"
  /\ last.a.label = "None"
  /\ last.err = "ok"
  /\ len(valid) = 0
  /\ len(test) = 2

\* The name is a method on one of train and valid and missing on the other.
Mismatch(t, v, k) ==
  \/ getattr_kind(t, k) = "method" /\ getattr_kind(v, k) = "missing"
  \/ getattr_kind(t, k) = "missing" /\ getattr_kind(v, k) = "method"

\* C10 as stated: forwarding a name that is a method on only one of train
\* and valid fails with an AssertionError before either side is called,
\* leaving the container as it was.
C10_AssertionError ==
  [][(last'.op = "forward" /\ Mismatch(train, valid, last'.a.k)) =>
       /\ last'.err = "AssertionError"
       /\ last'.calls = <<>>
       /\ UNCHANGED <<kind, path, train, valid, test>>]_vars

\* C10 amended: such a forwarding fails with the AttributeError of the
\* failed lookup, before either side is called, leaving the container as it
\* was.
C10_AttributeError ==
  [][(last'.op = "forward" /\ Mismatch(train, valid, last'.a.k)) =>
       /\ last'.err = "AttributeError"
       /\ last'.calls = <<>>
       /\ UNCHANGED <<kind, path, train, valid, test>>]_vars

\* A failed forwarding of a name that valid has and train lacks.
C10_Witness ==
  /\ last.op = "forward"
  /\ last.err = "AttributeError"
  /\ last.calls = <<>>
  /\ getattr_kind(train, last.a.k) = "missing"
  /\ getattr_kind(valid, last.a.k) = "method"

====
